---------------------------- MODULE Spec2Model ----------------------------
(***************************************************************************)
(* Model of karoljaro/ai-image-pipeline: the ImageValidation rules, the    *)
(* ImageDimensions value object, the Image entity, the ProcessingJob state *)
(* machine and EnhanceImageUseCase.execute with its two ports.             *)
(*                                                                         *)
(* JavaScript values are records tagged with a kind.  A finite number x is *)
(* [kind |-> "number", q |-> 4 * x]: every finite number of the model is a *)
(* multiple of 1/4, far below 2^53, so sums, products and comparisons of   *)
(* doubles are exact and integer arithmetic on q computes them.  A string  *)
(* is [kind |-> "string", s |-> <<fragments>>]: a literal of the source is *)
(* one fragment, an interpolated value contributes its own fragments, and  *)
(* a format name is spelled one character per fragment.                    *)
(***************************************************************************)
EXTENDS Integers, Sequences, FiniteSets, TLC

VARIABLES
    now,            \* the wall clock read by Date.now() and new Date()
    images,         \* heap of Image objects, a reference is an index
    jobs,           \* heap of ProcessingJob objects, a reference is an index
    call,           \* the last ProcessingJob method a direct caller invoked
    pc,             \* per invocation of execute: where it is suspended
    frame,          \* per invocation of execute: its local variables
    promise,        \* per invocation of execute: the promise it returned
    loaderCalls,    \* the imageLoader.loadImage calls made, each with its promise
    resolverCalls,  \* the superResolution.enhanceImage calls made, each with its promise
    held            \* the instant a direct caller last read from a timestamp accessor

vars == <<now, images, jobs, call, pc, frame, promise, loaderCalls, resolverCalls, held>>

---------------------------------------------------------------------------
(* Bounds of the model.                                                    *)

MaxClock == 2
\* the Image objects a direct caller constructs
MaxImages == 1

\* the invocations of execute that are followed
Invocations == { 1 }

---------------------------------------------------------------------------
(* JavaScript values.                                                      *)

Null == [kind |-> "null"]
Undefined == [kind |-> "undefined"]
NaN == [kind |-> "nan"]
PosInfinity == [kind |-> "inf"]
NegInfinity == [kind |-> "-inf"]

\* the number n, an integer
N(n) == [kind |-> "number", q |-> 4 * n]
\* the number n / 4
Quarters(n) == [kind |-> "number", q |-> n]

\* a string literal of the source
Str(text) == [kind |-> "string", s |-> <<text>>]
EmptyString == [kind |-> "string", s |-> <<>>]
\* a string given by its characters
Chars(cs) == [kind |-> "string", s |-> cs]

\* new Error(message), and what a statement that completes normally "throws"
Error(message) == [kind |-> "Error", message |-> message]
NoThrow == [kind |-> "nothrow"]
Threw(e) == e # NoThrow

\* new Date(): the instant the clock shows
NewDate == [kind |-> "Date", t |-> now]
\* new Date(d): a fresh instant equal in value to d
CopyDate(d) == [kind |-> "Date", t |-> d.t]

\* x <= n, x > n for a number x and an integer n (false on NaN)
Leq(x, n) == \/ x.kind = "-inf"
             \/ x.kind = "number" /\ x.q <= 4 * n
Gt(x, n) == \/ x.kind = "inf"
            \/ x.kind = "number" /\ x.q > 4 * n
Lt(x, n) == \/ x.kind = "-inf"
            \/ x.kind = "number" /\ x.q < 4 * n
\* Number.isFinite(x), Number.isInteger(x): false on every non-number
NumberIsFinite(x) == x.kind = "number"
NumberIsInteger(x) == x.kind = "number" /\ x.q % 4 = 0

\* mutant: Math.floor in place of Math.round
MathRoundProduct_floors(a, b) == N((a.q * b.q) \div 16)

\* Math.round(a * b) for finite a and b: the nearest integer, a half going up
MathRoundProduct(a, b) == N((a.q * b.q + 8) \div 16)

\* !v for the values a format can be: falsy are "", null, undefined, 0, NaN
Falsy(v) == \/ v.kind \in {"null", "undefined", "nan"}
            \/ v.kind = "string" /\ v.s = <<>>
            \/ v.kind = "number" /\ v.q = 0

LowerCaseOf == [c \in {"A", "B", "E", "F", "G", "I", "J", "M", "N", "P", "W"} |->
                  CASE c = "A" -> "a" [] c = "B" -> "b" [] c = "E" -> "e"
                    [] c = "F" -> "f" [] c = "G" -> "g" [] c = "I" -> "i"
                    [] c = "J" -> "j" [] c = "M" -> "m" [] c = "N" -> "n"
                    [] c = "P" -> "p" [] c = "W" -> "w"]
\* String.prototype.toLowerCase on a string spelled character by character
toLowerCase(str) ==
    Chars([k \in 1 .. Len(str.s) |->
             IF str.s[k] \in DOMAIN LowerCaseOf THEN LowerCaseOf[str.s[k]] ELSE str.s[k]])

---------------------------------------------------------------------------
(* ImageValidation: each validator yields the Error it throws, or NoThrow. *)

MaxDimension == 10000
MaxSizeInBytes == 52428800
MinUpscaleFactor == 1
MaxUpscaleFactor == 4

supportedFormats ==
    << Chars(<<"j", "p", "e", "g">>), Chars(<<"j", "p", "g">>), Chars(<<"p", "n", "g">>),
       Chars(<<"w", "e", "b", "p">>), Chars(<<"b", "m", "p">>) >>

\* mutant: the three rules are applied to the width, then to the height
validateDimensions_perValue(width, height) ==
    IF Leq(width, 0)
      THEN Error(Str("Image dimensions must be positive numbers"))
    ELSE IF ~NumberIsInteger(width)
      THEN Error(Str("Image dimensions must be integers"))
    ELSE IF Gt(width, MaxDimension)
      THEN Error(Str("Image dimensions exceed maximum allowed size (10000px)"))
    ELSE IF Leq(height, 0)
      THEN Error(Str("Image dimensions must be positive numbers"))
    ELSE IF ~NumberIsInteger(height)
      THEN Error(Str("Image dimensions must be integers"))
    ELSE IF Gt(height, MaxDimension)
      THEN Error(Str("Image dimensions exceed maximum allowed size (10000px)"))
    ELSE NoThrow

validateDimensions(width, height) ==
    IF Leq(width, 0) \/ Leq(height, 0)
      THEN Error(Str("Image dimensions must be positive numbers"))
    ELSE IF ~NumberIsInteger(width) \/ ~NumberIsInteger(height)
      THEN Error(Str("Image dimensions must be integers"))
    ELSE IF Gt(width, MaxDimension) \/ Gt(height, MaxDimension)
      THEN Error(Str("Image dimensions exceed maximum allowed size (10000px)"))
    ELSE NoThrow

validateFormat(format) ==
    IF Falsy(format) \/ format.kind # "string"
      THEN Error(Str("Image format must be a non-empty string"))
    ELSE IF \A k \in 1 .. Len(supportedFormats) : supportedFormats[k] # toLowerCase(format)
      THEN Error(Chars(<<"Unsupported image format: ">> \o format.s
                        \o <<". Supported: jpeg, jpg, png, webp, bmp">>))
    ELSE NoThrow

validateFileSize(sizeInBytes) ==
    IF Leq(sizeInBytes, 0)
      THEN Error(Str("File size must be positive"))
    ELSE IF Gt(sizeInBytes, MaxSizeInBytes)
      THEN Error(Str("File size exceeds maximum allowed (50MB)"))
    ELSE NoThrow

\* mutant: the range is tested before finiteness
validateUpscaleFactor_rangeFirst(factor) ==
    IF Leq(factor, MinUpscaleFactor)
      THEN Error(Str("Upscale factor must be greater than 1"))
    ELSE IF Gt(factor, MaxUpscaleFactor)
      THEN Error(Str("Upscale factor cannot exceed 4x for performance reasons"))
    ELSE IF ~NumberIsFinite(factor)
      THEN Error(Str("Upscale factor must be a finite number"))
    ELSE NoThrow

\* mutant: the lower bound is tested with < in place of <=
validateUpscaleFactor_allowsOne(factor) ==
    IF ~NumberIsFinite(factor)
      THEN Error(Str("Upscale factor must be a finite number"))
    ELSE IF Lt(factor, MinUpscaleFactor)
      THEN Error(Str("Upscale factor must be greater than 1"))
    ELSE IF Gt(factor, MaxUpscaleFactor)
      THEN Error(Str("Upscale factor cannot exceed 4x for performance reasons"))
    ELSE NoThrow

validateUpscaleFactor(factor) ==
    IF ~NumberIsFinite(factor)
      THEN Error(Str("Upscale factor must be a finite number"))
    ELSE IF Leq(factor, MinUpscaleFactor)
      THEN Error(Str("Upscale factor must be greater than 1"))
    ELSE IF Gt(factor, MaxUpscaleFactor)
      THEN Error(Str("Upscale factor cannot exceed 4x for performance reasons"))
    ELSE NoThrow

---------------------------------------------------------------------------
(* ImageDimensions and Image.  A constructor or method that can throw      *)
(* yields [threw, value]: value is meaningful only when nothing was thrown.*)

\* mutant: the constructor does not validate
newImageDimensions_unchecked(width, height) ==
    [threw |-> NoThrow,
     value |-> [kind |-> "ImageDimensions", width |-> width, height |-> height]]

newImageDimensions(width, height) ==
    [threw |-> validateDimensions(width, height),
     value |-> [kind |-> "ImageDimensions", width |-> width, height |-> height]]

\* mutant: the constructor stores the lower-cased format
newImage_normalizesFormat(id, width, height, format, sizeInBytes) ==
    LET e1 == validateDimensions(width, height)
        e2 == validateFormat(format)
        e3 == validateFileSize(sizeInBytes)
    IN  [threw |-> IF Threw(e1) THEN e1 ELSE IF Threw(e2) THEN e2 ELSE e3,
         value |-> [kind |-> "Image", id |-> id, width |-> width, height |-> height,
                    format |-> IF Threw(e2) THEN format ELSE toLowerCase(format),
                    sizeInBytes |-> sizeInBytes, createdAt |-> NewDate]]

newImage(id, width, height, format, sizeInBytes) ==
    LET e1 == validateDimensions(width, height)
        e2 == validateFormat(format)
        e3 == validateFileSize(sizeInBytes)
    IN  [threw |-> IF Threw(e1) THEN e1 ELSE IF Threw(e2) THEN e2 ELSE e3,
         value |-> [kind |-> "Image", id |-> id, width |-> width, height |-> height,
                    format |-> format, sizeInBytes |-> sizeInBytes, createdAt |-> NewDate]]

\* get createdAt(): an accessor yields the instant it returns, and whether
\* that object is the one the field holds
Image_createdAt(image) == [date |-> CopyDate(image.createdAt), shares |-> FALSE]

canBeUpscaled(image) == Lt(image.width, 4000) /\ Lt(image.height, 4000)

\* mutant: an image that cannot be upscaled is refused
getUpscaledDimensions_checksEligibility(image, factor) ==
    LET e == validateUpscaleFactor(factor)
    IN  IF Threw(e)
          THEN [threw |-> e, value |-> Undefined]
        ELSE IF ~canBeUpscaled(image)
          THEN [threw |-> Error(Str("Image cannot be upscaled")), value |-> Undefined]
          ELSE newImageDimensions(MathRoundProduct(image.width, factor),
                                  MathRoundProduct(image.height, factor))

getUpscaledDimensions(image, factor) ==
    LET e == validateUpscaleFactor(factor)
    IN  IF Threw(e)
          THEN [threw |-> e, value |-> Undefined]
          ELSE newImageDimensions(MathRoundProduct(image.width, factor),
                                  MathRoundProduct(image.height, factor))

---------------------------------------------------------------------------
(* ProcessingJob.  A transition yields [threw, job]: the Error it throws   *)
(* (or NoThrow) and the object's fields after the call.                    *)

PENDING == "PENDING"
IN_PROGRESS == "IN_PROGRESS"
COMPLETED == "COMPLETED"
FAILED == "FAILED"
ProcessingStatus == {PENDING, IN_PROGRESS, COMPLETED, FAILED}

newProcessingJob(id, sourceImage) ==
    [kind |-> "ProcessingJob", id |-> id, sourceImage |-> sourceImage, status |-> PENDING,
     enhancedDimensions |-> Null, processingTimeMs |-> Null, errorMessage |-> Null,
     createdAt |-> NewDate, completedAt |-> Null]

\* mutant: the accessor returns the Date object the field holds
ProcessingJob_completedAt_returnsField(job) ==
    IF job.completedAt # Null
      THEN [date |-> job.completedAt, shares |-> TRUE]
      ELSE [date |-> Null, shares |-> FALSE]

\* get createdAt(), get completedAt()
ProcessingJob_createdAt(job) == [date |-> CopyDate(job.createdAt), shares |-> FALSE]

ProcessingJob_completedAt(job) ==
    IF job.completedAt # Null
      THEN [date |-> CopyDate(job.completedAt), shares |-> FALSE]
      ELSE [date |-> Null, shares |-> FALSE]

\* mutant: a failure stamps the job anew
fail_restamps(job, errorMessage) ==
    IF job.status # IN_PROGRESS
      THEN [threw |-> Error(Str("Job must be IN_PROGRESS to fail")), job |-> job]
      ELSE [threw |-> NoThrow,
            job |-> [job EXCEPT !.status = FAILED,
                                !.errorMessage = errorMessage,
                                !.createdAt = NewDate,
                                !.completedAt = NewDate]]

\* mutant: a getter that takes every finished job for a completed one
isCompleted_anyTerminal(job) == job.status \in {COMPLETED, FAILED}

isCompleted(job) == job.status = COMPLETED

hasFailed(job) == job.status = FAILED

\* mutant: the status guard is missing
startProcessing_unguarded(job) ==
    [threw |-> NoThrow, job |-> [job EXCEPT !.status = IN_PROGRESS]]

startProcessing(job) ==
    IF job.status # PENDING
      THEN [threw |-> Error(Str("Job can only be started from PENDING status")), job |-> job]
      ELSE [threw |-> NoThrow, job |-> [job EXCEPT !.status = IN_PROGRESS]]

\* mutant: a job that was never started can be completed
completeSuccessfully_fromPending(job, enhancedDimensions, processingTimeMs) ==
    IF job.status \notin {PENDING, IN_PROGRESS}
      THEN [threw |-> Error(Str("Job must be IN_PROGRESS to complete")), job |-> job]
      ELSE [threw |-> NoThrow,
            job |-> [job EXCEPT !.status = COMPLETED,
                                !.enhancedDimensions = enhancedDimensions,
                                !.processingTimeMs = processingTimeMs,
                                !.completedAt = NewDate]]

\* mutant: a duration of 0 is taken for a missing one
completeSuccessfully_dropsZero(job, enhancedDimensions, processingTimeMs) ==
    IF job.status # IN_PROGRESS
      THEN [threw |-> Error(Str("Job must be IN_PROGRESS to complete")), job |-> job]
      ELSE [threw |-> NoThrow,
            job |-> [job EXCEPT !.status = COMPLETED,
                                !.enhancedDimensions = enhancedDimensions,
                                !.processingTimeMs =
                                    IF processingTimeMs = N(0) THEN Null ELSE processingTimeMs,
                                !.completedAt = NewDate]]

completeSuccessfully(job, enhancedDimensions, processingTimeMs) ==
    IF job.status # IN_PROGRESS
      THEN [threw |-> Error(Str("Job must be IN_PROGRESS to complete")), job |-> job]
      ELSE [threw |-> NoThrow,
            job |-> [job EXCEPT !.status = COMPLETED,
                                !.enhancedDimensions = enhancedDimensions,
                                !.processingTimeMs = processingTimeMs,
                                !.completedAt = NewDate]]

\* mutant: the message is stored before the status is tested
fail_storesBeforeCheck(job, errorMessage) ==
    IF job.status # IN_PROGRESS
      THEN [threw |-> Error(Str("Job must be IN_PROGRESS to fail")),
            job |-> [job EXCEPT !.errorMessage = errorMessage]]
      ELSE [threw |-> NoThrow,
            job |-> [job EXCEPT !.status = FAILED,
                                !.errorMessage = errorMessage,
                                !.completedAt = NewDate]]

\* mutant: the completion timestamp is not recorded
fail_noTimestamp(job, errorMessage) ==
    IF job.status # IN_PROGRESS
      THEN [threw |-> Error(Str("Job must be IN_PROGRESS to fail")), job |-> job]
      ELSE [threw |-> NoThrow,
            job |-> [job EXCEPT !.status = FAILED, !.errorMessage = errorMessage]]

\* mutant: only a PENDING job is refused
fail_fromAnyStarted(job, errorMessage) ==
    IF job.status = PENDING
      THEN [threw |-> Error(Str("Job must be IN_PROGRESS to fail")), job |-> job]
      ELSE [threw |-> NoThrow,
            job |-> [job EXCEPT !.status = FAILED,
                                !.errorMessage = errorMessage,
                                !.completedAt = NewDate]]

fail(job, errorMessage) ==
    IF job.status # IN_PROGRESS
      THEN [threw |-> Error(Str("Job must be IN_PROGRESS to fail")), job |-> job]
      ELSE [threw |-> NoThrow,
            job |-> [job EXCEPT !.status = FAILED,
                                !.errorMessage = errorMessage,
                                !.completedAt = NewDate]]

---------------------------------------------------------------------------
(* A caller driving one ProcessingJob directly through its three           *)
(* transitions, as src/unnamed/part_002 does.  call records the last       *)
(* method invoked: its arguments, the job's fields before it ran and the   *)
(* Error it threw.                                                         *)

TestedJob == 1

NoCall == [op |-> "none"]
\* the caller has read no timestamp yet
NoInstant == [of |-> "none"]

JobDimensions ==
    { newImageDimensions(N(3840), N(2160)).value, newImageDimensions(N(1), N(1)).value }
JobDurations == { N(0), N(2500) }
JobMessages ==
    { EmptyString, Str("Processing failed"), Str("GPU memory exceeded during processing") }

CallStartProcessing ==
    LET r == startProcessing(jobs[TestedJob])
    IN  /\ pc = [i \in Invocations |-> "off"]
        /\ jobs' = [jobs EXCEPT ![TestedJob] = r.job]
        /\ call' = [op |-> "startProcessing", before |-> jobs[TestedJob], threw |-> r.threw]
        /\ UNCHANGED <<now, images, pc, frame, promise, loaderCalls, resolverCalls, held>>

CallCompleteSuccessfully(enhancedDimensions, processingTimeMs) ==
    LET r == completeSuccessfully(jobs[TestedJob], enhancedDimensions, processingTimeMs)
    IN  /\ pc = [i \in Invocations |-> "off"]
        /\ jobs' = [jobs EXCEPT ![TestedJob] = r.job]
        /\ call' = [op |-> "completeSuccessfully", before |-> jobs[TestedJob],
                    threw |-> r.threw, enhancedDimensions |-> enhancedDimensions,
                    processingTimeMs |-> processingTimeMs]
        /\ UNCHANGED <<now, images, pc, frame, promise, loaderCalls, resolverCalls, held>>

CallFail(errorMessage) ==
    LET r == fail(jobs[TestedJob], errorMessage)
    IN  /\ pc = [i \in Invocations |-> "off"]
        /\ jobs' = [jobs EXCEPT ![TestedJob] = r.job]
        /\ call' = [op |-> "fail", before |-> jobs[TestedJob], threw |-> r.threw,
                    errorMessage |-> errorMessage]
        /\ UNCHANGED <<now, images, pc, frame, promise, loaderCalls, resolverCalls, held>>

\* the wall clock advances
Tick ==
    /\ now < MaxClock
    /\ now' = now + 1
    /\ UNCHANGED <<images, jobs, call, pc, frame, promise, loaderCalls, resolverCalls, held>>

\* the caller reads a timestamp accessor and keeps what it returned
ReadImageCreatedAt ==
    LET r == Image_createdAt(images[jobs[TestedJob].sourceImage.at])
    IN  /\ held' = [of |-> "Image.createdAt", date |-> r.date, shares |-> r.shares,
                    written |-> FALSE]
        /\ UNCHANGED <<now, images, jobs, call, pc, frame, promise, loaderCalls,
                       resolverCalls>>

ReadJobCreatedAt ==
    LET r == ProcessingJob_createdAt(jobs[TestedJob])
    IN  /\ held' = [of |-> "ProcessingJob.createdAt", date |-> r.date, shares |-> r.shares,
                    written |-> FALSE]
        /\ UNCHANGED <<now, images, jobs, call, pc, frame, promise, loaderCalls,
                       resolverCalls>>

ReadJobCompletedAt ==
    LET r == ProcessingJob_completedAt(jobs[TestedJob])
    IN  /\ held' = [of |-> "ProcessingJob.completedAt", date |-> r.date, shares |-> r.shares,
                    written |-> FALSE]
        /\ UNCHANGED <<now, images, jobs, call, pc, frame, promise, loaderCalls,
                       resolverCalls>>

\* the times a caller sets on an instant it holds
SetTimes == { 86400000 }

\* held.setTime(t): the Date object changes, and with it any field that holds
\* that same object
SetTimeOfHeld(t) ==
    LET written == [kind |-> "Date", t |-> t]
    IN  /\ held # NoInstant
        /\ held.date # Null
        /\ held' = [held EXCEPT !.date = written, !.written = TRUE]
        /\ images' =
              IF held.shares /\ held.of = "Image.createdAt"
                THEN [images EXCEPT ![jobs[TestedJob].sourceImage.at].createdAt = written]
                ELSE images
        /\ jobs' =
              IF held.shares /\ held.of = "ProcessingJob.createdAt"
                THEN [jobs EXCEPT ![TestedJob].createdAt = written]
              ELSE IF held.shares /\ held.of = "ProcessingJob.completedAt"
                THEN [jobs EXCEPT ![TestedJob].completedAt = written]
                ELSE jobs
        /\ UNCHANGED <<now, call, pc, frame, promise, loaderCalls, resolverCalls>>

NoFrame ==
    [request |-> Undefined, startTime |-> 0, upscaleFactor |-> Undefined,
     originalImage |-> Undefined, job |-> Undefined]
NoPromise == [state |-> "none"]

\* beforeEach of src/unnamed/part_002: an Image and a ProcessingJob on it
InitJob ==
    /\ now = 0
    /\ images = << newImage(Str("img-123"), N(1920), N(1080),
                            Chars(<<"j", "p", "e", "g">>), N(500000)).value >>
    /\ jobs = << newProcessingJob(Str("job-456"), [kind |-> "ref", at |-> 1]) >>
    /\ call = NoCall
    /\ pc = [i \in Invocations |-> "off"]
    /\ frame = [i \in Invocations |-> NoFrame]
    /\ promise = [i \in Invocations |-> NoPromise]
    /\ loaderCalls = << >>
    /\ resolverCalls = << >>
    /\ held = NoInstant

NextJob ==
    \/ CallStartProcessing
    \/ \E d \in JobDimensions, ms \in JobDurations : CallCompleteSuccessfully(d, ms)
    \/ \E m \in JobMessages : CallFail(m)
    \/ ReadImageCreatedAt
    \/ ReadJobCreatedAt
    \/ ReadJobCompletedAt
    \/ \E t \in SetTimes : SetTimeOfHeld(t)
    \/ Tick

SpecJob == InitJob /\ [][NextJob]_vars

---------------------------------------------------------------------------
(* A caller invoking the validators, the Image constructor and             *)
(* Image.getUpscaledDimensions directly, as src/unnamed/part_001 and the   *)
(* Image tests do.  call records the last invocation: its arguments, the   *)
(* Error it threw and what it returned.                                    *)

\* arguments of type number, the non-finite ones included
DimensionArguments ==
    { NaN, PosInfinity, NegInfinity, N(-1), N(0), Quarters(2), N(1), N(3), N(5000),
      N(MaxDimension), N(MaxDimension + 1), N(20000) }
FormatArguments ==
    { Chars(<<"j", "p", "e", "g">>), Chars(<<"J", "P", "E", "G">>), Chars(<<"P", "n", "G">>),
      Chars(<<"j", "p", "g">>), Chars(<<"w", "e", "b", "p">>), Chars(<<"b", "m", "p">>),
      Chars(<<"G", "I", "F">>), EmptyString, Null, Undefined, N(5) }
SizeArguments ==
    { NaN, PosInfinity, NegInfinity, N(-1000), N(0), Quarters(2), N(1), N(1024),
      N(MaxSizeInBytes), N(MaxSizeInBytes + 1) }
FactorArguments ==
    { NaN, PosInfinity, NegInfinity, N(0), N(1), Quarters(5), Quarters(6), N(2), N(4),
      Quarters(17) }

\* arguments the Image constructor is called with
ImageWidths == { N(0), Quarters(2), N(1), N(5000), N(MaxDimension + 1) }
ImageHeights == { N(0), N(3), N(5000), N(20000) }
ImageFormats ==
    { Chars(<<"J", "P", "E", "G">>), Chars(<<"P", "n", "G">>), Chars(<<"G", "I", "F">>),
      EmptyString }
ImageSizes == { NaN, N(0), N(1), N(MaxSizeInBytes + 1) }

CallValidateDimensions(width, height) ==
    /\ call' = [op |-> "validateDimensions", width |-> width, height |-> height,
                threw |-> validateDimensions(width, height)]
    /\ UNCHANGED <<now, images, jobs, pc, frame, promise, loaderCalls, resolverCalls, held>>

CallValidateFormat(format) ==
    /\ call' = [op |-> "validateFormat", format |-> format, threw |-> validateFormat(format)]
    /\ UNCHANGED <<now, images, jobs, pc, frame, promise, loaderCalls, resolverCalls, held>>

CallValidateFileSize(sizeInBytes) ==
    /\ call' = [op |-> "validateFileSize", sizeInBytes |-> sizeInBytes,
                threw |-> validateFileSize(sizeInBytes)]
    /\ UNCHANGED <<now, images, jobs, pc, frame, promise, loaderCalls, resolverCalls, held>>

CallValidateUpscaleFactor(factor) ==
    /\ call' = [op |-> "validateUpscaleFactor", factor |-> factor,
                threw |-> validateUpscaleFactor(factor)]
    /\ UNCHANGED <<now, images, jobs, pc, frame, promise, loaderCalls, resolverCalls, held>>

\* new Image(...): the object exists only if the constructor returned
CallNewImage(width, height, format, sizeInBytes) ==
    LET r == newImage(Str("img-123"), width, height, format, sizeInBytes)
    IN  /\ Len(images) < MaxImages
        /\ images' = IF Threw(r.threw) THEN images ELSE Append(images, r.value)
        /\ call' = [op |-> "newImage", width |-> width, height |-> height,
                    format |-> format, sizeInBytes |-> sizeInBytes,
                    threw |-> r.threw, before |-> images]
        /\ UNCHANGED <<now, jobs, pc, frame, promise, loaderCalls, resolverCalls, held>>

CallGetUpscaledDimensions(k, factor) ==
    LET r == getUpscaledDimensions(images[k], factor)
    IN  /\ call' = [op |-> "getUpscaledDimensions", image |-> k, factor |-> factor,
                    threw |-> r.threw, value |-> r.value, before |-> images]
        /\ UNCHANGED <<now, images, jobs, pc, frame, promise, loaderCalls, resolverCalls,
                       held>>

InitCalls ==
    /\ now = 0
    /\ images = << >>
    /\ jobs = << >>
    /\ call = NoCall
    /\ pc = [i \in Invocations |-> "off"]
    /\ frame = [i \in Invocations |-> NoFrame]
    /\ promise = [i \in Invocations |-> NoPromise]
    /\ loaderCalls = << >>
    /\ resolverCalls = << >>
    /\ held = NoInstant

NextCalls ==
    \/ \E w \in DimensionArguments, h \in DimensionArguments : CallValidateDimensions(w, h)
    \/ \E f \in FormatArguments : CallValidateFormat(f)
    \/ \E b \in SizeArguments : CallValidateFileSize(b)
    \/ \E f \in FactorArguments : CallValidateUpscaleFactor(f)
    \/ \E w \in ImageWidths, h \in ImageHeights, f \in ImageFormats, b \in ImageSizes :
          CallNewImage(w, h, f, b)
    \/ \E k \in DOMAIN images, f \in FactorArguments : CallGetUpscaledDimensions(k, f)

SpecCalls == InitCalls /\ [][NextCalls]_vars

---------------------------------------------------------------------------
(* EnhanceImageUseCase.execute.  JavaScript runs the code between two      *)
(* awaits without interruption, so an invocation takes one step when it is *)
(* called and one step each time the port call it awaits settles.  The     *)
(* ports are the environment: a call resolves with a value or rejects with *)
(* a reason drawn from the sets below.                                     *)

Ref(k) == [kind |-> "ref", at |-> k]
Buffer(text) == [kind |-> "Buffer", bytes |-> text]

Pending == [state |-> "pending"]
Fulfilled(value) == [state |-> "fulfilled", value |-> value]
Rejected(reason) == [state |-> "rejected", reason |-> reason]

\* a TypeError is an Error; the text is the engine's
TypeError(property) ==
    Error(Chars(<<"Cannot read properties of undefined (reading '", property, "')">>))

ImageInputs == { Str("test.jpg") }
UpscaleFactors ==
    { Undefined, NaN, PosInfinity, N(1), Quarters(5), Quarters(6), N(2), N(3), N(4),
      Quarters(17) }
Requests ==
    { [kind |-> "object", imageInput |-> input, upscaleFactor |-> factor] :
        input \in ImageInputs, factor \in UpscaleFactors }

LoadedWidths == { N(0), Quarters(2), N(1), N(400), N(800), N(2501), N(10000), N(10001) }
LoadedHeights == { N(300), N(600), N(10000) }
LoadedFormats ==
    { Chars(<<"j", "p", "e", "g">>), Chars(<<"P", "N", "G">>), Chars(<<"g", "i", "f">>),
      EmptyString, Null }
LoadedSizes == { NaN, N(0), N(50000), N(MaxSizeInBytes), N(MaxSizeInBytes + 1) }
LoadedImages ==
    { [kind |-> "object", data |-> Buffer("original-image-data"), width |-> w,
       height |-> h, format |-> f, sizeBytes |-> b] :
        w \in LoadedWidths, h \in LoadedHeights, f \in LoadedFormats, b \in LoadedSizes }
\* what loadImage may resolve with: a LoadedImageData, or nothing at all
LoadResolutions == LoadedImages \cup { Null }
\* what loadImage may reject with: an Error, or a value that is no Error
LoadRejections == { Error(Str("Failed to load image")), Str("load aborted") }

\* what enhanceImage may resolve with: a SuperResolutionResult, or nothing at all
EnhanceResolutions ==
    { [kind |-> "object", enhancedImageData |-> Buffer("enhanced-image-data"),
       processingTimeMs |-> N(1500)],
      Undefined }
EnhanceRejections == { Error(Str("AI processing failed")), Str("inference aborted") }

\* Math.random().toString(36).substr(2, 9)
RandomSuffixes == { "k3j9x2m1q", "a0b1c2d3e" }

generateImageId(suffix) == Chars(<<"img-", ToString(now), "-", suffix>>)

generateJobId(suffix) == Chars(<<"job-", ToString(now), "-", suffix>>)

\* mutant: an absent factor defaults to 3
resolveUpscaleFactor_defaultsToThree(request) ==
    IF request.upscaleFactor.kind \in {"null", "undefined"}
      THEN N(3)
      ELSE request.upscaleFactor

\* request.upscaleFactor ?? 2
resolveUpscaleFactor(request) ==
    IF request.upscaleFactor.kind \in {"null", "undefined"}
      THEN N(2)
      ELSE request.upscaleFactor

\* mutant: the catch block does not move the job to FAILED
catchBlock_leavesJob(startTime, error, originalImage, job, heap) ==
    [promise |-> Fulfilled([success |-> FALSE,
                            enhancedImageData |-> Undefined,
                            originalImage |-> originalImage,
                            job |-> job,
                            enhancedDimensions |-> Undefined,
                            processingTimeMs |-> N(now - startTime),
                            errorMessage |-> IF error.kind = "Error" THEN error.message
                                                                    ELSE Str("Unknown error")]),
     jobs |-> heap]

\* mutant: the catch block reports every error as 'Unknown error'
catchBlock_hidesMessage(startTime, error, originalImage, job, heap) ==
    LET failing == IF job = Undefined
                     THEN [threw |-> NoThrow, job |-> Undefined]
                     ELSE fail(heap[job.at], Str("Unknown error"))
        heapAfter == IF job = Undefined THEN heap ELSE [heap EXCEPT ![job.at] = failing.job]
    IN  IF Threw(failing.threw)
          THEN [promise |-> Rejected(failing.threw), jobs |-> heapAfter]
          ELSE [promise |-> Fulfilled([success |-> FALSE,
                                       enhancedImageData |-> Undefined,
                                       originalImage |-> originalImage,
                                       job |-> job,
                                       enhancedDimensions |-> Undefined,
                                       processingTimeMs |-> N(now - startTime),
                                       errorMessage |-> Str("Unknown error")]),
                jobs |-> heapAfter]

\* catch (error) { ... }: heap is the job heap when the error was thrown.
\* Yields the settled promise and the job heap the block leaves.
\* mutant: the failure response never carries the image
catchBlock_dropsImage(startTime, error, originalImage, job, heap) ==
    LET processingTime == N(now - startTime)
        errorMessage == IF error.kind = "Error" THEN error.message ELSE Str("Unknown error")
        failing == IF job = Undefined
                     THEN [threw |-> NoThrow, job |-> Undefined]
                     ELSE fail(heap[job.at], errorMessage)
        heapAfter == IF job = Undefined THEN heap ELSE [heap EXCEPT ![job.at] = failing.job]
    IN  IF Threw(failing.threw)
          THEN [promise |-> Rejected(failing.threw), jobs |-> heapAfter]
          ELSE [promise |-> Fulfilled([success |-> FALSE,
                                       enhancedImageData |-> Undefined,
                                       originalImage |-> Undefined,
                                       job |-> job,
                                       enhancedDimensions |-> Undefined,
                                       processingTimeMs |-> processingTime,
                                       errorMessage |-> errorMessage]),
                jobs |-> heapAfter]

\* mutant: a thrown value that is no Error is reported as it is
catchBlock_stringifies(startTime, error, originalImage, job, heap) ==
    LET processingTime == N(now - startTime)
        errorMessage == IF error.kind = "Error" THEN error.message ELSE error
        failing == IF job = Undefined
                     THEN [threw |-> NoThrow, job |-> Undefined]
                     ELSE fail(heap[job.at], errorMessage)
        heapAfter == IF job = Undefined THEN heap ELSE [heap EXCEPT ![job.at] = failing.job]
    IN  IF Threw(failing.threw)
          THEN [promise |-> Rejected(failing.threw), jobs |-> heapAfter]
          ELSE [promise |-> Fulfilled([success |-> FALSE,
                                       enhancedImageData |-> Undefined,
                                       originalImage |-> originalImage,
                                       job |-> job,
                                       enhancedDimensions |-> Undefined,
                                       processingTimeMs |-> processingTime,
                                       errorMessage |-> errorMessage]),
                jobs |-> heapAfter]

catchBlock(startTime, error, originalImage, job, heap) ==
    LET processingTime == N(now - startTime)
        errorMessage == IF error.kind = "Error" THEN error.message ELSE Str("Unknown error")
        failing == IF job = Undefined
                     THEN [threw |-> NoThrow, job |-> Undefined]
                     ELSE fail(heap[job.at], errorMessage)
        heapAfter == IF job = Undefined THEN heap ELSE [heap EXCEPT ![job.at] = failing.job]
    IN  IF Threw(failing.threw)
          THEN [promise |-> Rejected(failing.threw), jobs |-> heapAfter]
          ELSE [promise |-> Fulfilled([success |-> FALSE,
                                       enhancedImageData |-> Undefined,
                                       originalImage |-> originalImage,
                                       job |-> job,
                                       enhancedDimensions |-> Undefined,
                                       processingTimeMs |-> processingTime,
                                       errorMessage |-> errorMessage]),
                jobs |-> heapAfter]

\* the invocation ends in its catch block
Caught(i, error, originalImage, job, imageHeap, jobHeap) ==
    LET c == catchBlock(frame[i].startTime, error, originalImage, job, jobHeap)
    IN  [pc |-> "returned", promise |-> c.promise, images |-> imageHeap, jobs |-> c.jobs,
         originalImage |-> originalImage, job |-> job, enhance |-> << >>]

\* mutant: the resolver is called with the job still PENDING
afterLoadImage_neverStarts(i, loadedImage, imageSuffix, jobSuffix) ==
    IF loadedImage.kind \in {"null", "undefined"}
      THEN Caught(i, TypeError("width"), Undefined, Undefined, images, jobs)
    ELSE
    LET e1 == validateDimensions(loadedImage.width, loadedImage.height)
        e2 == validateFileSize(loadedImage.sizeBytes)
        e3 == validateFormat(loadedImage.format)
        created == newImage(generateImageId(imageSuffix), loadedImage.width,
                            loadedImage.height, loadedImage.format, loadedImage.sizeBytes)
        originalImage == Ref(Len(images) + 1)
        images1 == Append(images, created.value)
        job == Ref(Len(jobs) + 1)
        jobs1 == Append(jobs, newProcessingJob(generateJobId(jobSuffix), originalImage))
        started == startProcessing(jobs1[job.at])
        jobs2 == jobs1
    IN  IF Threw(e1) THEN Caught(i, e1, Undefined, Undefined, images, jobs)
        ELSE IF Threw(e2) THEN Caught(i, e2, Undefined, Undefined, images, jobs)
        ELSE IF Threw(e3) THEN Caught(i, e3, Undefined, Undefined, images, jobs)
        ELSE IF Threw(created.threw)
          THEN Caught(i, created.threw, Undefined, Undefined, images, jobs)
        ELSE IF Threw(started.threw)
          THEN Caught(i, started.threw, originalImage, job, images1, jobs2)
        ELSE [pc |-> "awaitEnhance", promise |-> Pending, images |-> images1, jobs |-> jobs2,
              originalImage |-> originalImage, job |-> job,
              enhance |-> << [by |-> i, imageData |-> loadedImage.data,
                              upscaleFactor |-> frame[i].upscaleFactor,
                              promise |-> Pending] >>]

\* lines 33-58, from the loader's answer to the call of the resolver
afterLoadImage(i, loadedImage, imageSuffix, jobSuffix) ==
    IF loadedImage.kind \in {"null", "undefined"}
      THEN Caught(i, TypeError("width"), Undefined, Undefined, images, jobs)
    ELSE
    LET e1 == validateDimensions(loadedImage.width, loadedImage.height)
        e2 == validateFileSize(loadedImage.sizeBytes)
        e3 == validateFormat(loadedImage.format)
        created == newImage(generateImageId(imageSuffix), loadedImage.width,
                            loadedImage.height, loadedImage.format, loadedImage.sizeBytes)
        originalImage == Ref(Len(images) + 1)
        images1 == Append(images, created.value)
        job == Ref(Len(jobs) + 1)
        jobs1 == Append(jobs, newProcessingJob(generateJobId(jobSuffix), originalImage))
        started == startProcessing(jobs1[job.at])
        jobs2 == [jobs1 EXCEPT ![job.at] = started.job]
    IN  IF Threw(e1) THEN Caught(i, e1, Undefined, Undefined, images, jobs)
        ELSE IF Threw(e2) THEN Caught(i, e2, Undefined, Undefined, images, jobs)
        ELSE IF Threw(e3) THEN Caught(i, e3, Undefined, Undefined, images, jobs)
        ELSE IF Threw(created.threw)
          THEN Caught(i, created.threw, Undefined, Undefined, images, jobs)
        ELSE IF Threw(started.threw)
          THEN Caught(i, started.threw, originalImage, job, images1, jobs2)
        ELSE [pc |-> "awaitEnhance", promise |-> Pending, images |-> images1, jobs |-> jobs2,
              originalImage |-> originalImage, job |-> job,
              enhance |-> << [by |-> i, imageData |-> loadedImage.data,
                              upscaleFactor |-> frame[i].upscaleFactor,
                              promise |-> Pending] >>]

\* mutant: the image and the job are fields of the use case, which the latest
\* invocation overwrote
afterEnhanceImage_sharedFields(i, result) ==
    LET f == [frame[i] EXCEPT !.originalImage = Ref(Len(images)),
                                 !.job = Ref(Len(jobs))]
        enhanced == getUpscaledDimensions(images[f.originalImage.at], f.upscaleFactor)
        totalProcessingTime == N(now - f.startTime)
        completed == completeSuccessfully(jobs[f.job.at], enhanced.value, totalProcessingTime)
        jobs1 == [jobs EXCEPT ![f.job.at] = completed.job]
    IN  IF Threw(enhanced.threw)
          THEN Caught(i, enhanced.threw, f.originalImage, f.job, images, jobs)
        ELSE IF Threw(completed.threw)
          THEN Caught(i, completed.threw, f.originalImage, f.job, images, jobs1)
        ELSE IF result.kind \in {"null", "undefined"}
          THEN Caught(i, TypeError("enhancedImageData"), f.originalImage, f.job, images, jobs1)
        ELSE [pc |-> "returned",
              promise |-> Fulfilled([success |-> TRUE,
                                     enhancedImageData |-> result.enhancedImageData,
                                     originalImage |-> f.originalImage,
                                     job |-> f.job,
                                     enhancedDimensions |-> enhanced.value,
                                     processingTimeMs |-> totalProcessingTime,
                                     errorMessage |-> Undefined]),
              images |-> images, jobs |-> jobs1,
              originalImage |-> f.originalImage, job |-> f.job, enhance |-> << >>]

\* mutant: the response reports the resolver's own processingTimeMs
afterEnhanceImage_reportsResolverTime(i, result) ==
    LET f == frame[i]
        enhanced == getUpscaledDimensions(images[f.originalImage.at], f.upscaleFactor)
        totalProcessingTime == N(now - f.startTime)
        completed == completeSuccessfully(jobs[f.job.at], enhanced.value, totalProcessingTime)
        jobs1 == [jobs EXCEPT ![f.job.at] = completed.job]
    IN  IF Threw(enhanced.threw)
          THEN Caught(i, enhanced.threw, f.originalImage, f.job, images, jobs)
        ELSE IF Threw(completed.threw)
          THEN Caught(i, completed.threw, f.originalImage, f.job, images, jobs1)
        ELSE IF result.kind \in {"null", "undefined"}
          THEN Caught(i, TypeError("enhancedImageData"), f.originalImage, f.job, images, jobs1)
        ELSE [pc |-> "returned",
              promise |-> Fulfilled([success |-> TRUE,
                                     enhancedImageData |-> result.enhancedImageData,
                                     originalImage |-> f.originalImage,
                                     job |-> f.job,
                                     enhancedDimensions |-> enhanced.value,
                                     processingTimeMs |-> result.processingTimeMs,
                                     errorMessage |-> Undefined]),
              images |-> images, jobs |-> jobs1,
              originalImage |-> f.originalImage, job |-> f.job, enhance |-> << >>]

\* lines 58-74, from the resolver's answer to the return
afterEnhanceImage(i, result) ==
    LET f == frame[i]
        enhanced == getUpscaledDimensions(images[f.originalImage.at], f.upscaleFactor)
        totalProcessingTime == N(now - f.startTime)
        completed == completeSuccessfully(jobs[f.job.at], enhanced.value, totalProcessingTime)
        jobs1 == [jobs EXCEPT ![f.job.at] = completed.job]
    IN  IF Threw(enhanced.threw)
          THEN Caught(i, enhanced.threw, f.originalImage, f.job, images, jobs)
        ELSE IF Threw(completed.threw)
          THEN Caught(i, completed.threw, f.originalImage, f.job, images, jobs1)
        ELSE IF result.kind \in {"null", "undefined"}
          THEN Caught(i, TypeError("enhancedImageData"), f.originalImage, f.job, images, jobs1)
        ELSE [pc |-> "returned",
              promise |-> Fulfilled([success |-> TRUE,
                                     enhancedImageData |-> result.enhancedImageData,
                                     originalImage |-> f.originalImage,
                                     job |-> f.job,
                                     enhancedDimensions |-> enhanced.value,
                                     processingTimeMs |-> totalProcessingTime,
                                     errorMessage |-> Undefined]),
              images |-> images, jobs |-> jobs1,
              originalImage |-> f.originalImage, job |-> f.job, enhance |-> << >>]

\* execute(request) is called: lines 21-33, up to the call of the loader
Execute(i, request) ==
    LET upscaleFactor == resolveUpscaleFactor(request)
        e == validateUpscaleFactor(upscaleFactor)
        c == catchBlock(now, e, Undefined, Undefined, jobs)
    IN  /\ pc[i] = "idle"
        /\ frame' = [frame EXCEPT ![i] = [request |-> request, startTime |-> now,
                                          upscaleFactor |-> upscaleFactor,
                                          originalImage |-> Undefined, job |-> Undefined]]
        /\ IF Threw(e)
             THEN /\ pc' = [pc EXCEPT ![i] = "returned"]
                  /\ promise' = [promise EXCEPT ![i] = c.promise]
                  /\ jobs' = c.jobs
                  /\ UNCHANGED loaderCalls
             ELSE /\ pc' = [pc EXCEPT ![i] = "awaitLoad"]
                  /\ promise' = [promise EXCEPT ![i] = Pending]
                  /\ loaderCalls' = Append(loaderCalls, [by |-> i, input |-> request.imageInput,
                                                         promise |-> Pending])
                  /\ UNCHANGED jobs
        /\ UNCHANGED <<now, images, call, resolverCalls, held>>

\* the invocation moves on as outcome o says
Continue(i, o) ==
    /\ pc' = [pc EXCEPT ![i] = o.pc]
    /\ promise' = [promise EXCEPT ![i] = o.promise]
    /\ images' = o.images
    /\ jobs' = o.jobs
    /\ frame' = [frame EXCEPT ![i].originalImage = o.originalImage, ![i].job = o.job]
    /\ UNCHANGED <<now, call, held>>

\* the port call invocation i awaits settles as outcome says
Settle(log, i, outcome) ==
    [k \in DOMAIN log |->
       IF log[k].by = i /\ log[k].promise = Pending
         THEN [log[k] EXCEPT !.promise = outcome]
         ELSE log[k]]

\* await this.imageLoader.loadImage(...) resolves
LoadImageResolves(i, loadedImage, imageSuffix, jobSuffix) ==
    /\ pc[i] = "awaitLoad"
    /\ Continue(i, afterLoadImage(i, loadedImage, imageSuffix, jobSuffix))
    /\ loaderCalls' = Settle(loaderCalls, i, Fulfilled(loadedImage))
    /\ resolverCalls' =
          resolverCalls \o afterLoadImage(i, loadedImage, imageSuffix, jobSuffix).enhance

\* await this.imageLoader.loadImage(...) rejects
LoadImageRejects(i, reason) ==
    /\ pc[i] = "awaitLoad"
    /\ Continue(i, Caught(i, reason, Undefined, Undefined, images, jobs))
    /\ loaderCalls' = Settle(loaderCalls, i, Rejected(reason))
    /\ UNCHANGED resolverCalls

\* await this.superResolution.enhanceImage(...) resolves
EnhanceImageResolves(i, result) ==
    /\ pc[i] = "awaitEnhance"
    /\ Continue(i, afterEnhanceImage(i, result))
    /\ resolverCalls' = Settle(resolverCalls, i, Fulfilled(result))
    /\ UNCHANGED loaderCalls

\* await this.superResolution.enhanceImage(...) rejects
EnhanceImageRejects(i, reason) ==
    /\ pc[i] = "awaitEnhance"
    /\ Continue(i, Caught(i, reason, frame[i].originalImage, frame[i].job, images, jobs))
    /\ resolverCalls' = Settle(resolverCalls, i, Rejected(reason))
    /\ UNCHANGED loaderCalls

InitExec ==
    /\ now = 0
    /\ images = << >>
    /\ jobs = << >>
    /\ call = NoCall
    /\ pc = [i \in Invocations |-> "idle"]
    /\ frame = [i \in Invocations |-> NoFrame]
    /\ promise = [i \in Invocations |-> NoPromise]
    /\ loaderCalls = << >>
    /\ resolverCalls = << >>
    /\ held = NoInstant

NextExec ==
    \/ \E i \in Invocations, request \in Requests : Execute(i, request)
    \/ \E i \in Invocations, loadedImage \in LoadResolutions,
          imageSuffix \in RandomSuffixes, jobSuffix \in RandomSuffixes :
            LoadImageResolves(i, loadedImage, imageSuffix, jobSuffix)
    \/ \E i \in Invocations, reason \in LoadRejections : LoadImageRejects(i, reason)
    \/ \E i \in Invocations, result \in EnhanceResolutions : EnhanceImageResolves(i, result)
    \/ \E i \in Invocations, reason \in EnhanceRejections : EnhanceImageRejects(i, reason)
    \/ Tick

SpecExec == InitExec /\ [][NextExec]_vars

---------------------------------------------------------------------------
(* Two invocations of execute on one EnhanceImageUseCase, interleaved at   *)
(* their awaits.  The use case has no fields but its two ports, so the     *)
(* invocations meet only in the heaps and in the ports' call logs.         *)

Concurrent == { 1, 2 }

ConcurrentRequests ==
    { [kind |-> "object", imageInput |-> Str("test.jpg"), upscaleFactor |-> factor] :
        factor \in { Undefined, N(1), N(4) } }
ConcurrentLoadResolutions ==
    { [kind |-> "object", data |-> Buffer("original-image-data"), width |-> w,
       height |-> N(300), format |-> Chars(<<"j", "p", "e", "g">>), sizeBytes |-> N(50000)] :
        w \in { N(0), N(400), N(2501) } }
ConcurrentLoadRejections == { Error(Str("Failed to load image")) }
ConcurrentEnhanceRejections == { Error(Str("AI processing failed")) }
ConcurrentSuffixes == { "k3j9x2m1q" }

InitConcurrent ==
    /\ now = 0
    /\ images = << >>
    /\ jobs = << >>
    /\ call = NoCall
    /\ pc = [i \in Concurrent |-> "idle"]
    /\ frame = [i \in Concurrent |-> NoFrame]
    /\ promise = [i \in Concurrent |-> NoPromise]
    /\ loaderCalls = << >>
    /\ resolverCalls = << >>
    /\ held = NoInstant

NextConcurrent ==
    \/ \E i \in Concurrent, request \in ConcurrentRequests : Execute(i, request)
    \/ \E i \in Concurrent, loadedImage \in ConcurrentLoadResolutions,
          imageSuffix \in ConcurrentSuffixes, jobSuffix \in ConcurrentSuffixes :
            LoadImageResolves(i, loadedImage, imageSuffix, jobSuffix)
    \/ \E i \in Concurrent, reason \in ConcurrentLoadRejections : LoadImageRejects(i, reason)
    \/ \E i \in Concurrent, result \in EnhanceResolutions : EnhanceImageResolves(i, result)
    \/ \E i \in Concurrent, reason \in ConcurrentEnhanceRejections :
          EnhanceImageRejects(i, reason)
    \/ Tick

SpecConcurrent == InitConcurrent /\ [][NextConcurrent]_vars

\* the port call invocation i awaits settles, one way or the other
PortSettles(i) ==
    \/ \E loadedImage \in ConcurrentLoadResolutions,
          imageSuffix \in ConcurrentSuffixes, jobSuffix \in ConcurrentSuffixes :
            LoadImageResolves(i, loadedImage, imageSuffix, jobSuffix)
    \/ \E reason \in ConcurrentLoadRejections : LoadImageRejects(i, reason)
    \/ \E result \in EnhanceResolutions : EnhanceImageResolves(i, result)
    \/ \E reason \in ConcurrentEnhanceRejections : EnhanceImageRejects(i, reason)

\* the two invocations under ports that settle every call issued to them
SpecConcurrentFair == SpecConcurrent /\ \A i \in Concurrent : WF_vars(PortSettles(i))

---------------------------------------------------------------------------
(* Claims about the ProcessingJob state machine, checked under SpecJob.    *)

Terminal(job) == job.status \in {COMPLETED, FAILED}
IsDate(v) == v.kind = "Date"

\* C1: in every reachable state of a ProcessingJob, enhancedDimensions and
\* processingTimeMs are non-null iff status is COMPLETED, errorMessage is
\* non-null iff status is FAILED, and completedAt is non-null iff status is
\* COMPLETED or FAILED.
C1_FieldsFollowStatus ==
    \A k \in DOMAIN jobs :
        /\ (jobs[k].enhancedDimensions # Null) <=> (jobs[k].status = COMPLETED)
        /\ (jobs[k].processingTimeMs # Null) <=> (jobs[k].status = COMPLETED)
        /\ (jobs[k].errorMessage # Null) <=> (jobs[k].status = FAILED)
        /\ (jobs[k].completedAt # Null) <=> (jobs[k].status \in {COMPLETED, FAILED})

\* a FAILED job on which a further transition was just rejected
C1_Witness ==
    /\ call.op = "completeSuccessfully"
    /\ Threw(call.threw)
    /\ jobs[TestedJob].status = FAILED
    /\ jobs[TestedJob].errorMessage # Null

\* C2: startProcessing succeeds exactly when the status is PENDING and then
\* sets it to IN_PROGRESS; otherwise it throws 'Job can only be started from
\* PENDING status'.  On a PENDING job completeSuccessfully and fail throw.
C2_StartOnlyFromPending ==
    /\ call.op = "startProcessing" =>
          /\ ~Threw(call.threw) <=> (call.before.status = PENDING)
          /\ ~Threw(call.threw) => jobs[TestedJob].status = IN_PROGRESS
          /\ Threw(call.threw) =>
                call.threw = Error(Str("Job can only be started from PENDING status"))
    /\ (call.op \in {"completeSuccessfully", "fail"} /\ call.before.status = PENDING) =>
          Threw(call.threw)

\* startProcessing was accepted on a PENDING job
C2_Witness ==
    /\ call.op = "startProcessing"
    /\ call.before.status = PENDING
    /\ ~Threw(call.threw)
    /\ jobs[TestedJob].status = IN_PROGRESS

\* C3: on an IN_PROGRESS job completeSuccessfully(dims, ms) sets COMPLETED and
\* stores exactly dims and ms (ms = 0 included) and a completion timestamp,
\* errorMessage staying null; fail(message) sets FAILED and stores exactly the
\* message (the empty string included) and a completion timestamp, the
\* dimensions and duration staying null.  In any other status both throw.
C3_CompleteAndFailStoreArguments ==
    /\ call.op = "completeSuccessfully" =>
          IF call.before.status = IN_PROGRESS
            THEN /\ ~Threw(call.threw)
                 /\ jobs[TestedJob].status = COMPLETED
                 /\ jobs[TestedJob].enhancedDimensions = call.enhancedDimensions
                 /\ jobs[TestedJob].processingTimeMs = call.processingTimeMs
                 /\ IsDate(jobs[TestedJob].completedAt)
                 /\ jobs[TestedJob].errorMessage = Null
            ELSE Threw(call.threw)
    /\ call.op = "fail" =>
          IF call.before.status = IN_PROGRESS
            THEN /\ ~Threw(call.threw)
                 /\ jobs[TestedJob].status = FAILED
                 /\ jobs[TestedJob].errorMessage = call.errorMessage
                 /\ IsDate(jobs[TestedJob].completedAt)
                 /\ jobs[TestedJob].enhancedDimensions = Null
                 /\ jobs[TestedJob].processingTimeMs = Null
            ELSE Threw(call.threw)

\* completeSuccessfully with a duration of 0 was accepted
C3_Witness ==
    /\ call.op = "completeSuccessfully"
    /\ call.before.status = IN_PROGRESS
    /\ call.processingTimeMs = N(0)
    /\ jobs[TestedJob].status = COMPLETED

\* C4: COMPLETED and FAILED are terminal: once the status is one of them,
\* every later startProcessing, completeSuccessfully or fail throws and the
\* status is the same in every later state.
C4_TerminalIsFinal ==
    /\ []((call # NoCall /\ Terminal(call.before)) => Threw(call.threw))
    /\ [][Terminal(jobs[TestedJob]) =>
            /\ jobs'[TestedJob].status = jobs[TestedJob].status
            /\ (call' # call => Threw(call'.threw))]_vars

\* a COMPLETED job on which fail was just rejected
C4_Witness ==
    /\ call.op = "fail"
    /\ call.before.status = COMPLETED
    /\ Threw(call.threw)
    /\ jobs[TestedJob].status = COMPLETED

\* C5: isCompleted and hasFailed are never both true, both are false while
\* the status is PENDING or IN_PROGRESS, isCompleted is true exactly in
\* COMPLETED and hasFailed exactly in FAILED.
C5_DerivedBooleans ==
    \A k \in DOMAIN jobs :
        /\ ~(isCompleted(jobs[k]) /\ hasFailed(jobs[k]))
        /\ jobs[k].status \in {PENDING, IN_PROGRESS} =>
              ~isCompleted(jobs[k]) /\ ~hasFailed(jobs[k])
        /\ isCompleted(jobs[k]) <=> (jobs[k].status = COMPLETED)
        /\ hasFailed(jobs[k]) <=> (jobs[k].status = FAILED)

\* a job that failed: hasFailed holds and isCompleted does not
C5_Witness ==
    /\ call.op = "fail"
    /\ ~Threw(call.threw)
    /\ hasFailed(jobs[TestedJob])
    /\ ~isCompleted(jobs[TestedJob])

---------------------------------------------------------------------------
(* Claims about EnhanceImageUseCase.execute, checked under SpecExec.       *)

\* the port calls invocation i made
CallsBy(log, i) == { k \in DOMAIN log : log[k].by = i }

\* invocation i returned: its promise is fulfilled with a response
Returned(i) == promise[i].state = "fulfilled"
Response(i) == promise[i].value

\* the upscale factor the claims speak of: the request's, 2 when it is absent
ClaimedFactor(request) ==
    IF request.upscaleFactor = Undefined THEN N(2) ELSE request.upscaleFactor

\* finite and 1 < factor <= 4
ClaimedValidFactor(factor) == factor.kind = "number" /\ factor.q > 4 /\ factor.q <= 16

\* an integer in 1 .. 10000
ClaimedValidSide(x) == x.kind = "number" /\ x.q % 4 = 0 /\ x.q >= 4 /\ x.q <= 40000

\* metadata that passes validation
ClaimedValidMetadata(m) ==
    /\ m.kind = "object"
    /\ ClaimedValidSide(m.width)
    /\ ClaimedValidSide(m.height)
    /\ m.format.kind = "string"
    /\ toLowerCase(m.format).s \in
          { <<"j", "p", "e", "g">>, <<"j", "p", "g">>, <<"p", "n", "g">>,
            <<"w", "e", "b", "p">>, <<"b", "m", "p">> }
    /\ m.sizeBytes.kind = "number"
    /\ m.sizeBytes.q > 0
    /\ m.sizeBytes.q <= 4 * 52428800

\* x is side * factor rounded to the nearest integer, a half going up
IsRounded(x, side, factor) ==
    /\ x.kind = "number"
    /\ x.q % 4 = 0
    /\ 4 * x.q - 8 <= side.q * factor.q
    /\ side.q * factor.q < 4 * x.q + 8

\* side * factor rounds to at most 10000
RoundsWithinMaximum(side, factor) == side.q * factor.q < 16 * 10000 + 8

\* the loader resolved with valid metadata m and the resolver resolved with a
\* result: execute reports success with both sides of m scaled and rounded
SucceedsScaled(i, m) ==
    /\ Returned(i)
    /\ Response(i).success = TRUE
    /\ Response(i).job # Undefined
    /\ jobs[Response(i).job.at].status = COMPLETED
    /\ Response(i).enhancedDimensions.kind = "ImageDimensions"
    /\ IsRounded(Response(i).enhancedDimensions.width, m.width,
                 ClaimedFactor(frame[i].request))
    /\ IsRounded(Response(i).enhancedDimensions.height, m.height,
                 ClaimedFactor(frame[i].request))

\* C6 as stated: for every metadata that passes validation and every valid
\* factor, if the loader resolves with it and the resolver resolves with a
\* result, execute returns success=true, job.status=COMPLETED and
\* enhancedDimensions = (round(width*factor), round(height*factor)).
C6_AsStated ==
    \A i \in Invocations : \A k \in CallsBy(loaderCalls, i), r \in CallsBy(resolverCalls, i) :
        ( /\ loaderCalls[k].promise.state = "fulfilled"
          /\ ClaimedValidMetadata(loaderCalls[k].promise.value)
          /\ ClaimedValidFactor(ClaimedFactor(frame[i].request))
          /\ resolverCalls[r].promise.state = "fulfilled"
          /\ resolverCalls[r].promise.value.kind = "object" )
        => SucceedsScaled(i, loaderCalls[k].promise.value)

\* C6 amended: the same, provided round(width*factor) and round(height*factor)
\* are both at most 10000.
C6_SucceedsWhenResultFits ==
    \A i \in Invocations : \A k \in CallsBy(loaderCalls, i), r \in CallsBy(resolverCalls, i) :
        ( /\ loaderCalls[k].promise.state = "fulfilled"
          /\ ClaimedValidMetadata(loaderCalls[k].promise.value)
          /\ ClaimedValidFactor(ClaimedFactor(frame[i].request))
          /\ RoundsWithinMaximum(loaderCalls[k].promise.value.width,
                                 ClaimedFactor(frame[i].request))
          /\ RoundsWithinMaximum(loaderCalls[k].promise.value.height,
                                 ClaimedFactor(frame[i].request))
          /\ resolverCalls[r].promise.state = "fulfilled"
          /\ resolverCalls[r].promise.value.kind = "object" )
        => SucceedsScaled(i, loaderCalls[k].promise.value)

\* 800x600 with the default factor came back as 1600x1200
C6_Witness ==
    /\ Returned(1)
    /\ frame[1].request.upscaleFactor = Undefined
    /\ loaderCalls # << >>
    /\ loaderCalls[1].promise.state = "fulfilled"
    /\ loaderCalls[1].promise.value.kind = "object"
    /\ loaderCalls[1].promise.value.width = N(800)
    /\ loaderCalls[1].promise.value.height = N(600)
    /\ Response(1).success = TRUE
    /\ Response(1).enhancedDimensions.width = N(1600)
    /\ Response(1).enhancedDimensions.height = N(1200)

\* C7: when the resolver rejects with an Error, execute returns success=false
\* with the error's message, the response carries the Image and the Job, the
\* job is FAILED with that same message, and neither enhancedImageData nor
\* enhancedDimensions is returned.
C7_ResolverFailureFailsJob ==
    \A i \in Invocations : \A r \in CallsBy(resolverCalls, i) :
        ( /\ resolverCalls[r].promise.state = "rejected"
          /\ resolverCalls[r].promise.reason.kind = "Error" )
        => /\ Returned(i)
           /\ Response(i).success = FALSE
           /\ Response(i).errorMessage = resolverCalls[r].promise.reason.message
           /\ Response(i).originalImage # Undefined
           /\ images[Response(i).originalImage.at].kind = "Image"
           /\ Response(i).job # Undefined
           /\ jobs[Response(i).job.at].status = FAILED
           /\ jobs[Response(i).job.at].errorMessage = resolverCalls[r].promise.reason.message
           /\ Response(i).enhancedImageData = Undefined
           /\ Response(i).enhancedDimensions = Undefined

\* the resolver rejected with 'AI processing failed' and the job is FAILED
C7_Witness ==
    /\ Returned(1)
    /\ resolverCalls # << >>
    /\ resolverCalls[1].promise = Rejected(Error(Str("AI processing failed")))
    /\ jobs[Response(1).job.at].status = FAILED

\* C8: when the loader rejects with an Error, execute returns success=false
\* with the error's message, the response holds no originalImage, no job and
\* no enhancedImageData, and the resolver is never invoked.
C8_LoaderFailureStopsEarly ==
    \A i \in Invocations : \A k \in CallsBy(loaderCalls, i) :
        ( /\ loaderCalls[k].promise.state = "rejected"
          /\ loaderCalls[k].promise.reason.kind = "Error" )
        => /\ Returned(i)
           /\ Response(i).success = FALSE
           /\ Response(i).errorMessage = loaderCalls[k].promise.reason.message
           /\ Response(i).originalImage = Undefined
           /\ Response(i).job = Undefined
           /\ Response(i).enhancedImageData = Undefined
           /\ CallsBy(resolverCalls, i) = {}

\* the loader rejected with 'Failed to load image' and execute returned
C8_Witness ==
    /\ Returned(1)
    /\ loaderCalls # << >>
    /\ loaderCalls[1].promise = Rejected(Error(Str("Failed to load image")))
    /\ Response(1).errorMessage = Str("Failed to load image")

\* C9: if the resolved upscale factor is invalid (not finite, <= 1 or > 4),
\* execute returns success=false with the upscale-factor validation message,
\* neither port is ever invoked by that invocation, and no Image or Job is
\* created.
C9_InvalidFactorStopsBeforeLoad ==
    \A i \in Invocations :
        ( /\ pc[i] # "idle"
          /\ ~ClaimedValidFactor(ClaimedFactor(frame[i].request)) )
        => /\ Returned(i)
           /\ Response(i).success = FALSE
           /\ Response(i).errorMessage =
                 IF ClaimedFactor(frame[i].request).kind # "number"
                   THEN Str("Upscale factor must be a finite number")
                 ELSE IF ClaimedFactor(frame[i].request).q <= 4
                   THEN Str("Upscale factor must be greater than 1")
                 ELSE Str("Upscale factor cannot exceed 4x for performance reasons")
           /\ CallsBy(loaderCalls, i) = {}
           /\ CallsBy(resolverCalls, i) = {}
           /\ Response(i).originalImage = Undefined
           /\ Response(i).job = Undefined
           /\ images = << >>
           /\ jobs = << >>

\* execute was called with a factor of exactly 1 and returned the failure
C9_Witness ==
    /\ Returned(1)
    /\ frame[1].request.upscaleFactor = N(1)
    /\ Response(1).errorMessage = Str("Upscale factor must be greater than 1")
    /\ loaderCalls = << >>

\* C10: whatever the request and whatever the two ports do (resolve with any
\* data, reject with any value), the promise execute returned resolves with a
\* response and never rejects.
C10_ExecuteNeverRejects ==
    \A i \in Invocations : promise[i].state # "rejected"

\* C11: every response of execute has one of two shapes: success=true with
\* enhancedImageData, originalImage, job, enhancedDimensions and
\* processingTimeMs present, the job COMPLETED, on the returned image, and
\* holding the returned dimensions and duration; or success=false with
\* errorMessage and processingTimeMs present and enhancedImageData and
\* enhancedDimensions absent.
C11_ResponseShapes ==
    \A i \in Invocations :
        Returned(i) =>
          \/ /\ Response(i).success = TRUE
             /\ Response(i).enhancedImageData # Undefined
             /\ Response(i).originalImage # Undefined
             /\ Response(i).job # Undefined
             /\ Response(i).enhancedDimensions # Undefined
             /\ Response(i).processingTimeMs # Undefined
             /\ jobs[Response(i).job.at].status = COMPLETED
             /\ jobs[Response(i).job.at].sourceImage = Response(i).originalImage
             /\ jobs[Response(i).job.at].enhancedDimensions = Response(i).enhancedDimensions
             /\ jobs[Response(i).job.at].processingTimeMs = Response(i).processingTimeMs
          \/ /\ Response(i).success = FALSE
             /\ Response(i).errorMessage # Undefined
             /\ Response(i).processingTimeMs # Undefined
             /\ Response(i).enhancedImageData = Undefined
             /\ Response(i).enhancedDimensions = Undefined

\* a success response was returned after the clock had advanced
C11_Witness ==
    /\ Returned(1)
    /\ Response(1).success = TRUE
    /\ Response(1).processingTimeMs = N(1)
    /\ jobs[Response(1).job.at].status = COMPLETED

\* C20: whenever execute invokes the resolver, it passes exactly the data the
\* loader resolved with and the resolved upscale factor (the request's, 2 when
\* the request has none), and on success enhancedDimensions is the image's
\* dimensions scaled by that same factor.
C20_ResolverGetsLoadedDataAndFactor ==
    \A i \in Invocations : \A r \in CallsBy(resolverCalls, i) :
        /\ \E k \in CallsBy(loaderCalls, i) :
              /\ loaderCalls[k].promise.state = "fulfilled"
              /\ resolverCalls[r].imageData = loaderCalls[k].promise.value.data
        /\ resolverCalls[r].upscaleFactor = ClaimedFactor(frame[i].request)
        /\ (Returned(i) /\ Response(i).success = TRUE) =>
              /\ IsRounded(Response(i).enhancedDimensions.width,
                           images[Response(i).originalImage.at].width,
                           resolverCalls[r].upscaleFactor)
              /\ IsRounded(Response(i).enhancedDimensions.height,
                           images[Response(i).originalImage.at].height,
                           resolverCalls[r].upscaleFactor)

\* the resolver was invoked with the loaded bytes and the requested factor 1.5,
\* and the 400 pixel side came back as 600
C20_Witness ==
    /\ resolverCalls # << >>
    /\ frame[1].request.upscaleFactor = Quarters(6)
    /\ resolverCalls[1].upscaleFactor = Quarters(6)
    /\ resolverCalls[1].imageData = Buffer("original-image-data")
    /\ Returned(1)
    /\ Response(1).success = TRUE
    /\ images[Response(1).originalImage.at].width = N(400)
    /\ Response(1).enhancedDimensions.width = N(600)

\* the message validateUpscaleFactor is claimed to fail with on an invalid factor
ClaimedFactorError(factor) ==
    Error(Str(IF factor.kind # "number" THEN "Upscale factor must be a finite number"
              ELSE IF factor.q <= 4 THEN "Upscale factor must be greater than 1"
              ELSE "Upscale factor cannot exceed 4x for performance reasons"))

\* the call returned a new Dimensions holding both sides of the image scaled
\* by the factor and rounded
ReturnedScaled ==
    /\ call.threw = NoThrow
    /\ call.value.kind = "ImageDimensions"
    /\ IsRounded(call.value.width, images[call.image].width, call.factor)
    /\ IsRounded(call.value.height, images[call.image].height, call.factor)

\* C12 as stated: for every valid Image and every valid factor,
\* getUpscaledDimensions returns a new Dimensions of width*factor and
\* height*factor, each rounded to the nearest integer (a half away from zero),
\* also for an oversized source, and leaves the Image unchanged; for an
\* invalid factor it throws the validateUpscaleFactor error.
C12_AsStated ==
    call.op = "getUpscaledDimensions" =>
        /\ images = call.before
        /\ IF ClaimedValidFactor(call.factor)
             THEN ReturnedScaled
             ELSE call.threw = ClaimedFactorError(call.factor)

\* C12 amended: the same when both rounded sides are at most 10000, whatever
\* canBeUpscaled says of the source; when a rounded side exceeds 10000 the
\* call throws the Dimensions error 'exceed maximum allowed size'.
C12_ScalesUpToMaximum ==
    call.op = "getUpscaledDimensions" =>
        /\ images = call.before
        /\ IF ~ClaimedValidFactor(call.factor)
             THEN call.threw = ClaimedFactorError(call.factor)
           ELSE IF /\ RoundsWithinMaximum(images[call.image].width, call.factor)
                   /\ RoundsWithinMaximum(images[call.image].height, call.factor)
             THEN ReturnedScaled
             ELSE call.threw =
                    Error(Str("Image dimensions exceed maximum allowed size (10000px)"))

\* a 5000x5000 image, which canBeUpscaled refuses, was scaled by 2 to
\* 10000x10000
C12_Witness ==
    /\ call.op = "getUpscaledDimensions"
    /\ images[call.image].width = N(5000)
    /\ images[call.image].height = N(5000)
    /\ ~canBeUpscaled(images[call.image])
    /\ call.factor = N(2)
    /\ call.threw = NoThrow
    /\ call.value.width = N(10000)
    /\ call.value.height = N(10000)

\* x <= 0, and x is not an integer (NaN and the infinities are not)
ClaimedNonPositive(x) == x.kind = "-inf" \/ (x.kind = "number" /\ x.q <= 0)
ClaimedNonIntegral(x) == x.kind # "number" \/ x.q % 4 # 0

\* C13: validateDimensions(width, height) succeeds iff both values are
\* integers in 1..10000; otherwise it fails with the first violated rule in
\* the order non-positive, non-integral, above 10000, each rule evaluated over
\* both values before the next rule is considered.
C13_DimensionRulesInOrder ==
    call.op = "validateDimensions" =>
        IF ClaimedValidSide(call.width) /\ ClaimedValidSide(call.height)
          THEN call.threw = NoThrow
        ELSE IF ClaimedNonPositive(call.width) \/ ClaimedNonPositive(call.height)
          THEN call.threw = Error(Str("Image dimensions must be positive numbers"))
        ELSE IF ClaimedNonIntegral(call.width) \/ ClaimedNonIntegral(call.height)
          THEN call.threw = Error(Str("Image dimensions must be integers"))
          ELSE call.threw =
                 Error(Str("Image dimensions exceed maximum allowed size (10000px)"))

\* validateDimensions(10001, 0) reported non-positivity
C13_Witness ==
    /\ call.op = "validateDimensions"
    /\ call.width = N(10001)
    /\ call.height = N(0)
    /\ call.threw = Error(Str("Image dimensions must be positive numbers"))

\* C14: validateUpscaleFactor(factor) succeeds iff factor is finite and
\* 1 < factor <= 4; a non-finite value is reported as 'must be a finite
\* number' before any range check, a value <= 1 as 'must be greater than 1',
\* a value > 4 as 'cannot exceed 4x'.
C14_FactorRules ==
    call.op = "validateUpscaleFactor" =>
        IF ClaimedValidFactor(call.factor)
          THEN call.threw = NoThrow
          ELSE call.threw = ClaimedFactorError(call.factor)

\* validateUpscaleFactor(+Infinity) reported a non-finite value, not the range
C14_Witness ==
    /\ call.op = "validateUpscaleFactor"
    /\ call.factor = PosInfinity
    /\ call.threw = Error(Str("Upscale factor must be a finite number"))

\* C15: validateFileSize(bytes) succeeds iff 0 < bytes <= 52428800; a value
\* <= 0 fails with 'File size must be positive', a value above 52428800 with
\* 'File size exceeds maximum allowed (50MB)'.
C15_FileSizeRules ==
    call.op = "validateFileSize" =>
        /\ call.threw = NoThrow <=>
              /\ call.sizeInBytes.kind = "number"
              /\ call.sizeInBytes.q > 0
              /\ call.sizeInBytes.q <= 4 * 52428800
        /\ ClaimedNonPositive(call.sizeInBytes) =>
              call.threw = Error(Str("File size must be positive"))
        /\ (call.sizeInBytes.kind = "inf"
              \/ (call.sizeInBytes.kind = "number" /\ call.sizeInBytes.q > 4 * 52428800)) =>
              call.threw = Error(Str("File size exceeds maximum allowed (50MB)"))

\* a non-empty string whose lower-cased form is jpeg, jpg, png, webp or bmp
ClaimedSupportedFormat(format) ==
    /\ format.kind = "string"
    /\ format.s # << >>
    /\ toLowerCase(format).s \in
          { <<"j", "p", "e", "g">>, <<"j", "p", "g">>, <<"p", "n", "g">>,
            <<"w", "e", "b", "p">>, <<"b", "m", "p">> }

\* the message holds the characters of the format as they were given
EchoesInput(message, format) ==
    \E k \in 1 .. Len(message.s) :
        /\ k + Len(format.s) - 1 <= Len(message.s)
        /\ SubSeq(message.s, k, k + Len(format.s) - 1) = format.s

\* C16: validateFormat(format) succeeds iff format is a non-empty string
\* whose lower-cased form is supported; an empty, null, undefined or
\* non-string value fails with 'Image format must be a non-empty string', any
\* other string with a message echoing the input as given; and an Image
\* constructed with an accepted format keeps the casing it was given.
C16_FormatRulesKeepCasing ==
    /\ call.op = "validateFormat" =>
          IF ClaimedSupportedFormat(call.format)
            THEN call.threw = NoThrow
          ELSE IF call.format.kind # "string" \/ call.format.s = << >>
            THEN call.threw = Error(Str("Image format must be a non-empty string"))
            ELSE /\ Threw(call.threw)
                 /\ call.threw # Error(Str("Image format must be a non-empty string"))
                 /\ EchoesInput(call.threw.message, call.format)
    /\ (call.op = "newImage" /\ call.threw = NoThrow) =>
          images[Len(images)].format = call.format

\* an Image constructed with 'PnG' returns 'PnG'
C16_Witness ==
    /\ call.op = "newImage"
    /\ call.threw = NoThrow
    /\ call.format = Chars(<<"P", "n", "G">>)
    /\ images[Len(images)].format = Chars(<<"P", "n", "G">>)

\* C17: the Image constructor raises the error of the first violated
\* validator in the order dimensions, format, file size; when a validator
\* fails no Image object exists; and every Image that exists has integer
\* width and height in 1..10000, a supported format and
\* 0 < sizeInBytes <= 52428800.
C17_ConstructorOrderAndValidity ==
    /\ call.op = "newImage" =>
          /\ call.threw =
                IF Threw(validateDimensions(call.width, call.height))
                  THEN validateDimensions(call.width, call.height)
                ELSE IF Threw(validateFormat(call.format))
                  THEN validateFormat(call.format)
                  ELSE validateFileSize(call.sizeInBytes)
          /\ Threw(call.threw) => images = call.before
    /\ \A k \in DOMAIN images :
          /\ ClaimedValidSide(images[k].width)
          /\ ClaimedValidSide(images[k].height)
          /\ ClaimedSupportedFormat(images[k].format)
          /\ images[k].sizeInBytes.kind = "number"
          /\ images[k].sizeInBytes.q > 0
          /\ images[k].sizeInBytes.q <= 4 * 52428800

\* the value a timestamp field holds
StoredInstant(of) ==
    CASE of = "Image.createdAt" -> images[jobs[TestedJob].sourceImage.at].createdAt
      [] of = "ProcessingJob.createdAt" -> jobs[TestedJob].createdAt
      [] of = "ProcessingJob.completedAt" -> jobs[TestedJob].completedAt

\* C18: every read of Image.createdAt, ProcessingJob.createdAt and
\* ProcessingJob.completedAt returns an instant equal in value to the stored
\* one, completedAt being null until the job is COMPLETED or FAILED, and
\* mutating a returned instant changes no stored value, hence no later read.
C18_ReadsReturnFreshCopies ==
    [][ /\ (held' # held /\ ~held'.written) =>
              /\ held'.date = StoredInstant(held'.of)
              /\ held'.of = "ProcessingJob.completedAt" =>
                    (held'.date = Null <=> ~Terminal(jobs[TestedJob]))
        /\ (held' # held /\ held'.written) =>
              /\ images' = images
              /\ jobs' = jobs
      ]_vars

\* the caller set the time of a completedAt it had read, and the job still
\* holds the instant it finished at
C18_Witness ==
    /\ held # NoInstant
    /\ held.of = "ProcessingJob.completedAt"
    /\ held.written
    /\ held.date.t = 86400000
    /\ Terminal(jobs[TestedJob])
    /\ jobs[TestedJob].completedAt.t <= MaxClock

\* C19: across any sequence of startProcessing, completeSuccessfully and fail
\* calls, accepted or rejected, the job's id, sourceImage reference and
\* createdAt stay what the constructor set, and the referenced Image is never
\* modified.
C19_IdentityFieldsNeverChange ==
    /\ [](/\ jobs[TestedJob].id = Str("job-456")
          /\ jobs[TestedJob].sourceImage = [kind |-> "ref", at |-> 1]
          /\ jobs[TestedJob].createdAt = [kind |-> "Date", t |-> 0])
    /\ [][images' = images]_vars

\* the job was started and failed after the clock had advanced, and was then
\* asked to start again
C19_Witness ==
    /\ call.op = "startProcessing"
    /\ Threw(call.threw)
    /\ jobs[TestedJob].status = FAILED
    /\ jobs[TestedJob].completedAt.t > 0
    /\ jobs[TestedJob].createdAt.t = 0

\* C21: no transition skips a state: a job starts PENDING, its status changes
\* only from PENDING to IN_PROGRESS and from IN_PROGRESS to COMPLETED or
\* FAILED, so the statuses it takes are a prefix of PENDING, IN_PROGRESS,
\* one terminal status, and PENDING is never re-entered.
C21_NoTransitionSkipsAState ==
    /\ jobs[TestedJob].status = PENDING
    /\ [][ jobs'[TestedJob].status # jobs[TestedJob].status =>
             \/ /\ jobs[TestedJob].status = PENDING
                /\ jobs'[TestedJob].status = IN_PROGRESS
             \/ /\ jobs[TestedJob].status = IN_PROGRESS
                /\ jobs'[TestedJob].status \in {COMPLETED, FAILED}
         ]_vars

\* completing a PENDING job was tried and refused, the job still PENDING
C21_Witness ==
    /\ call.op = "completeSuccessfully"
    /\ call.before.status = PENDING
    /\ Threw(call.threw)
    /\ jobs[TestedJob].status = PENDING

\* C27: a rejected transition changes nothing: when startProcessing,
\* completeSuccessfully or fail throws, the job's status, enhancedDimensions,
\* processingTimeMs, errorMessage and completedAt are what they were before
\* the call.
C27_RejectedTransitionChangesNothing ==
    (call # NoCall /\ Threw(call.threw)) =>
        /\ jobs[TestedJob].status = call.before.status
        /\ jobs[TestedJob].enhancedDimensions = call.before.enhancedDimensions
        /\ jobs[TestedJob].processingTimeMs = call.before.processingTimeMs
        /\ jobs[TestedJob].errorMessage = call.before.errorMessage
        /\ jobs[TestedJob].completedAt = call.before.completedAt

\* fail was refused on a COMPLETED job, which holds no message and the
\* completion instant it had
C27_Witness ==
    /\ call.op = "fail"
    /\ call.before.status = COMPLETED
    /\ Threw(call.threw)
    /\ call.errorMessage # EmptyString
    /\ jobs[TestedJob].errorMessage = Null
    /\ jobs[TestedJob].completedAt = call.before.completedAt
    /\ now > call.before.completedAt.t

\* the message of the first rule the metadata m violates, the rules taken in
\* the order dimensions (positive, integral, at most 10000), file size
\* (0 < size <= 52428800), format; for an unsupported format the message is
\* the one validateFormat builds from the input
ClaimedMetadataError(m) ==
    IF ClaimedNonPositive(m.width) \/ ClaimedNonPositive(m.height)
      THEN Str("Image dimensions must be positive numbers")
    ELSE IF ClaimedNonIntegral(m.width) \/ ClaimedNonIntegral(m.height)
      THEN Str("Image dimensions must be integers")
    ELSE IF ~ClaimedValidSide(m.width) \/ ~ClaimedValidSide(m.height)
      THEN Str("Image dimensions exceed maximum allowed size (10000px)")
    ELSE IF ClaimedNonPositive(m.sizeBytes)
      THEN Str("File size must be positive")
    ELSE IF ~(m.sizeBytes.kind = "number" /\ m.sizeBytes.q > 0
                /\ m.sizeBytes.q <= 4 * 52428800)
      THEN Str("File size exceeds maximum allowed (50MB)")
    ELSE IF m.format.kind # "string" \/ m.format.s = << >>
      THEN Str("Image format must be a non-empty string")
      ELSE Chars(<<"Unsupported image format: ">> \o m.format.s
                  \o <<". Supported: jpeg, jpg, png, webp, bmp">>)

\* C22: when the loader resolves with metadata that violates a rule, execute
\* returns success=false with the message of the first violated check in the
\* order dimensions, file size, format; no Image and no Job is created, both
\* are absent from the response, and the resolver is never invoked.
C22_InvalidMetadataStopsBeforeImage ==
    \A i \in Invocations : \A k \in CallsBy(loaderCalls, i) :
        ( /\ loaderCalls[k].promise.state = "fulfilled"
          /\ loaderCalls[k].promise.value.kind = "object"
          /\ ~ClaimedValidMetadata(loaderCalls[k].promise.value) )
        => /\ Returned(i)
           /\ Response(i).success = FALSE
           /\ Response(i).errorMessage = ClaimedMetadataError(loaderCalls[k].promise.value)
           /\ Response(i).originalImage = Undefined
           /\ Response(i).job = Undefined
           /\ images = << >>
           /\ jobs = << >>
           /\ CallsBy(resolverCalls, i) = {}

\* C23: within one invocation the loader is invoked at most once and the
\* resolver at most once, the resolver only after the loader call has
\* resolved with metadata that passed the three validators and the job has
\* been created and moved to IN_PROGRESS; no job is PENDING at an await point.
C23_PortCallsAreSequential ==
    /\ \A i \in Invocations :
          /\ Cardinality(CallsBy(loaderCalls, i)) <= 1
          /\ Cardinality(CallsBy(resolverCalls, i)) <= 1
          /\ \A r \in CallsBy(resolverCalls, i) :
                /\ \E k \in CallsBy(loaderCalls, i) :
                      /\ loaderCalls[k].promise.state = "fulfilled"
                      /\ loaderCalls[k].promise.value.kind = "object"
                      /\ ~Threw(validateDimensions(loaderCalls[k].promise.value.width,
                                                   loaderCalls[k].promise.value.height))
                      /\ ~Threw(validateFileSize(loaderCalls[k].promise.value.sizeBytes))
                      /\ ~Threw(validateFormat(loaderCalls[k].promise.value.format))
                /\ frame[i].job # Undefined
                /\ jobs[frame[i].job.at].status # PENDING
                /\ resolverCalls[r].promise = Pending =>
                      jobs[frame[i].job.at].status = IN_PROGRESS
          /\ pc[i] = "awaitLoad" => (CallsBy(resolverCalls, i) = {} /\ jobs = << >>)
    /\ \A j \in DOMAIN jobs : jobs[j].status # PENDING

\* the invocation awaits the resolver: the loader call is fulfilled and the
\* job is IN_PROGRESS
C23_Witness ==
    /\ pc[1] = "awaitEnhance"
    /\ Len(loaderCalls) = 1
    /\ loaderCalls[1].promise.state = "fulfilled"
    /\ Len(resolverCalls) = 1
    /\ resolverCalls[1].promise = Pending
    /\ jobs[frame[1].job.at].status = IN_PROGRESS

\* C25: the failure handler attempts fail only on a job that exists and is
\* IN_PROGRESS: its call to job.fail never raises 'Job must be IN_PROGRESS to
\* fail', and a failure before job creation attempts no transition.
C25_HandlerFailsOnlyInProgressJob ==
    \A i \in Invocations :
        /\ promise[i].state = "rejected" =>
              promise[i].reason # Error(Str("Job must be IN_PROGRESS to fail"))
        /\ (Returned(i) /\ Response(i).job = Undefined) => jobs = << >>

\* the ImageDimensions objects that exist: those jobs hold, those responses
\* carry and the one getUpscaledDimensions last returned to a direct caller
ExistingDimensions ==
    { jobs[j].enhancedDimensions :
        j \in { j \in DOMAIN jobs : jobs[j].enhancedDimensions # Null } }
    \cup { Response(i).enhancedDimensions :
             i \in { i \in Invocations :
                       Returned(i) /\ Response(i).enhancedDimensions # Undefined } }
    \cup (IF call.op = "getUpscaledDimensions" /\ call.threw = NoThrow
            THEN {call.value} ELSE {})

\* C26: every ImageDimensions instance that exists has integer width and
\* height in 1..10000, in particular what getUpscaledDimensions returns and
\* the enhancedDimensions of a job execute moved to COMPLETED.
C26_DimensionsAreValid ==
    /\ \A d \in ExistingDimensions :
          /\ d.kind = "ImageDimensions"
          /\ ClaimedValidSide(d.width)
          /\ ClaimedValidSide(d.height)
    /\ \A j \in DOMAIN jobs :
          jobs[j].status = COMPLETED => jobs[j].enhancedDimensions \in ExistingDimensions

\* execute completed a job for a 2501 pixel wide image scaled by 2
C26_Witness ==
    /\ Returned(1)
    /\ Response(1).success = TRUE
    /\ jobs[Response(1).job.at].status = COMPLETED
    /\ jobs[Response(1).job.at].enhancedDimensions.width = N(5002)
    /\ jobs[Response(1).job.at].enhancedDimensions \in ExistingDimensions

\* C28: in every response of execute a job that is present is terminal,
\* COMPLETED when success=true and FAILED with the response's errorMessage
\* when success=false, and originalImage is present iff job is present.
C28_ReturnedJobIsTerminal ==
    \A i \in Invocations :
        Returned(i) =>
          /\ Response(i).job # Undefined =>
                IF Response(i).success
                  THEN jobs[Response(i).job.at].status = COMPLETED
                  ELSE /\ jobs[Response(i).job.at].status = FAILED
                       /\ jobs[Response(i).job.at].errorMessage = Response(i).errorMessage
          /\ Response(i).originalImage # Undefined <=> Response(i).job # Undefined

\* scaling failed after the resolver had answered: the response carries the
\* image and the job, FAILED with the response's message
C28_Witness ==
    /\ Returned(1)
    /\ Response(1).success = FALSE
    /\ Response(1).originalImage # Undefined
    /\ Response(1).job # Undefined
    /\ Response(1).errorMessage =
          Str("Image dimensions exceed maximum allowed size (10000px)")
    /\ jobs[Response(1).job.at].status = FAILED

\* C29: when a port rejects with a value that is not an Error, execute
\* returns success=false with errorMessage 'Unknown error' and a job already
\* created is FAILED with that string; when it rejects with an Error the
\* error's own message is passed through.
C29_NonErrorBecomesUnknownError ==
    \A i \in Invocations :
        /\ \A k \in CallsBy(loaderCalls, i) :
              loaderCalls[k].promise.state = "rejected" =>
                /\ Returned(i)
                /\ Response(i).success = FALSE
                /\ Response(i).errorMessage =
                      IF loaderCalls[k].promise.reason.kind = "Error"
                        THEN loaderCalls[k].promise.reason.message
                        ELSE Str("Unknown error")
        /\ \A r \in CallsBy(resolverCalls, i) :
              resolverCalls[r].promise.state = "rejected" =>
                /\ Returned(i)
                /\ Response(i).success = FALSE
                /\ Response(i).errorMessage =
                      IF resolverCalls[r].promise.reason.kind = "Error"
                        THEN resolverCalls[r].promise.reason.message
                        ELSE Str("Unknown error")
                /\ jobs[frame[i].job.at].status = FAILED
                /\ jobs[frame[i].job.at].errorMessage = Response(i).errorMessage

\* the resolver rejected with a string and the job is FAILED with
\* 'Unknown error'
C29_Witness ==
    /\ Returned(1)
    /\ resolverCalls # << >>
    /\ resolverCalls[1].promise = Rejected(Str("inference aborted"))
    /\ Response(1).errorMessage = Str("Unknown error")
    /\ jobs[frame[1].job.at].errorMessage = Str("Unknown error")

\* what invocation i has come to: the state of its promise, the response's
\* fields but the duration, and the image and the job it holds, by content
Outcome(i) ==
    [state |-> promise[i].state,
     success |-> IF Returned(i) THEN Response(i).success ELSE FALSE,
     errorMessage |-> IF Returned(i) THEN Response(i).errorMessage
                      ELSE IF promise[i].state = "rejected" THEN promise[i].reason.message
                      ELSE Undefined,
     enhancedImageData |-> IF Returned(i) THEN Response(i).enhancedImageData ELSE Undefined,
     enhancedDimensions |-> IF Returned(i) THEN Response(i).enhancedDimensions ELSE Undefined,
     carriesImage |-> Returned(i) /\ Response(i).originalImage = frame[i].originalImage
                        /\ frame[i].originalImage # Undefined,
     carriesJob |-> Returned(i) /\ Response(i).job = frame[i].job
                      /\ frame[i].job # Undefined,
     imageWidth |-> IF frame[i].originalImage = Undefined THEN Undefined
                    ELSE images[frame[i].originalImage.at].width,
     jobStatus |-> IF frame[i].job = Undefined THEN "none"
                   ELSE jobs[frame[i].job.at].status,
     jobMessage |-> IF frame[i].job = Undefined THEN Null
                    ELSE jobs[frame[i].job.at].errorMessage,
     jobDimensions |-> IF frame[i].job = Undefined THEN Null
                       ELSE jobs[frame[i].job.at].enhancedDimensions]

\* an invocation that ended in the failure handler before any job existed,
\* with a job, and one that still awaits a port
FailedEarly(message) ==
    [state |-> "fulfilled", success |-> FALSE, errorMessage |-> message,
     enhancedImageData |-> Undefined, enhancedDimensions |-> Undefined,
     carriesImage |-> FALSE, carriesJob |-> FALSE, imageWidth |-> Undefined,
     jobStatus |-> "none", jobMessage |-> Null, jobDimensions |-> Null]
FailedLate(message, width) ==
    [state |-> "fulfilled", success |-> FALSE, errorMessage |-> message,
     enhancedImageData |-> Undefined, enhancedDimensions |-> Undefined,
     carriesImage |-> TRUE, carriesJob |-> TRUE, imageWidth |-> width,
     jobStatus |-> FAILED, jobMessage |-> message, jobDimensions |-> Null]
AwaitingLoad ==
    [state |-> "pending", success |-> FALSE, errorMessage |-> Undefined,
     enhancedImageData |-> Undefined, enhancedDimensions |-> Undefined,
     carriesImage |-> FALSE, carriesJob |-> FALSE, imageWidth |-> Undefined,
     jobStatus |-> "none", jobMessage |-> Null, jobDimensions |-> Null]
AwaitingEnhance(width) ==
    [state |-> "pending", success |-> FALSE, errorMessage |-> Undefined,
     enhancedImageData |-> Undefined, enhancedDimensions |-> Undefined,
     carriesImage |-> FALSE, carriesJob |-> FALSE, imageWidth |-> width,
     jobStatus |-> IN_PROGRESS, jobMessage |-> Null, jobDimensions |-> Null]

ReasonMessage(reason) ==
    IF reason.kind = "Error" THEN reason.message ELSE Str("Unknown error")

\* what invocation i comes to when it runs alone with its own request and
\* the outcomes its own two port calls had
OutcomeAlone(i) ==
    LET factor == ClaimedFactor(frame[i].request)
        loaded == loaderCalls[CHOOSE k \in CallsBy(loaderCalls, i) : TRUE].promise
        enhancedBy == resolverCalls[CHOOSE r \in CallsBy(resolverCalls, i) : TRUE].promise
        m == loaded.value
        image == newImage(EmptyString, m.width, m.height, m.format, m.sizeBytes)
        scaled == getUpscaledDimensions(image.value, factor)
    IN  IF Threw(validateUpscaleFactor(factor))
          THEN FailedEarly(validateUpscaleFactor(factor).message)
        ELSE IF loaded = Pending THEN AwaitingLoad
        ELSE IF loaded.state = "rejected" THEN FailedEarly(ReasonMessage(loaded.reason))
        ELSE IF m.kind # "object" THEN FailedEarly(TypeError("width").message)
        ELSE IF Threw(validateDimensions(m.width, m.height))
          THEN FailedEarly(validateDimensions(m.width, m.height).message)
        ELSE IF Threw(validateFileSize(m.sizeBytes))
          THEN FailedEarly(validateFileSize(m.sizeBytes).message)
        ELSE IF Threw(validateFormat(m.format))
          THEN FailedEarly(validateFormat(m.format).message)
        ELSE IF enhancedBy = Pending THEN AwaitingEnhance(m.width)
        ELSE IF enhancedBy.state = "rejected"
          THEN FailedLate(ReasonMessage(enhancedBy.reason), m.width)
        ELSE IF Threw(scaled.threw) THEN FailedLate(scaled.threw.message, m.width)
        ELSE IF enhancedBy.value.kind # "object"
          THEN [state |-> "rejected", success |-> FALSE,
                errorMessage |-> Str("Job must be IN_PROGRESS to fail"),
                enhancedImageData |-> Undefined, enhancedDimensions |-> Undefined,
                carriesImage |-> FALSE, carriesJob |-> FALSE, imageWidth |-> m.width,
                jobStatus |-> COMPLETED, jobMessage |-> Null,
                jobDimensions |-> scaled.value]
          ELSE [state |-> "fulfilled", success |-> TRUE, errorMessage |-> Undefined,
                enhancedImageData |-> enhancedBy.value.enhancedImageData,
                enhancedDimensions |-> scaled.value,
                carriesImage |-> TRUE, carriesJob |-> TRUE, imageWidth |-> m.width,
                jobStatus |-> COMPLETED, jobMessage |-> Null,
                jobDimensions |-> scaled.value]

\* C24: concurrent invocations of execute share no mutable state: each has
\* its own Image and its own ProcessingJob, a job is only ever transitioned by
\* the invocation that created it, and each invocation comes to what it
\* comes to alone with the same port outcomes.
C24_InvocationsShareNothing ==
    /\ [](\A i \in DOMAIN pc :
            pc[i] # "idle" =>
              /\ Outcome(i) = OutcomeAlone(i)
              /\ frame[i].job # Undefined =>
                    /\ jobs[frame[i].job.at].sourceImage = frame[i].originalImage
                    /\ \A j \in DOMAIN pc \ {i} :
                          /\ frame[j].job # frame[i].job
                          /\ frame[j].originalImage # frame[i].originalImage)
    /\ [][ \A k \in DOMAIN jobs :
             jobs'[k] # jobs[k] =>
               \E i \in DOMAIN pc : pc'[i] # pc[i] /\ frame[i].job = Ref(k)
         ]_vars

\* both invocations returned success, the second having created its job
\* before the first did
C24_Witness ==
    /\ DOMAIN pc = Concurrent
    /\ Returned(1) /\ Response(1).success = TRUE
    /\ Returned(2) /\ Response(2).success = TRUE
    /\ Response(1).job = Ref(2)
    /\ Response(2).job = Ref(1)
    /\ Response(1).enhancedDimensions # Response(2).enhancedDimensions

\* C30: if every port call that is issued eventually settles, every
\* invocation of execute eventually returns a response and every
\* ProcessingJob it created eventually reaches COMPLETED or FAILED.
C30_ExecuteEventuallyReturns ==
    /\ \A i \in Concurrent : (pc[i] # "idle") ~> Returned(i)
    /\ (jobs # << >>) ~> (\A j \in DOMAIN jobs : Terminal(jobs[j]))

=============================================================================
